---- MODULE Spec2Model ----
(***************************************************************************)
(* Session orchestration of src/pages/ConsolePage.tsx: the React state of  *)
(* ConsolePage, the three collaborators it drives (WavRecorder,            *)
(* WavStreamPlayer, RealtimeClient) and its asynchronous handlers.  Every  *)
(* handler is split at its await points: the step that reaches an await    *)
(* issues the awaited call and suspends the handler as a task; the step    *)
(* that resumes it applies the effect of the awaited operation and runs    *)
(* the continuation up to the next await.  Execution is single-threaded,   *)
(* so each such step is atomic, and suspended handlers resume in any order.*)
(***************************************************************************)
EXTENDS Bags, FiniteSets, Integers, Sequences, TLC

\* ---- bounds ----
MaxItems == 1
MaxOffset == 1
MaxTasks == 2
MaxDecodes == 2

VARIABLES
  items,            \* useState items: the published list (item ids, in order)
  isConnected,      \* useState isConnected
  canPushToTalk,    \* useState canPushToTalk
  isRecording,      \* useState isRecording
  toggleValue,      \* value shown by the Manual/Auto toggle
  mounted,          \* the component is mounted (its effect cleanup has not run)
  recStatus,        \* WavRecorder: "idle" | "paused" | "recording"
  playerConnected,  \* WavStreamPlayer: connect() has resolved
  playing,          \* WavStreamPlayer: marker of the track being played
  clientConnected,  \* RealtimeClient: isConnected()
  turnDetection,    \* RealtimeClient: getTurnDetectionType()
  clientItems,      \* RealtimeClient: conversation.getItems()
  nextId,           \* id the protocol client gives to its next item
  deleting,         \* ids whose deletion was requested with client.deleteItem
  tasks,            \* bag of handlers suspended at an await
  calls,            \* collaborator calls of the last step, in program order
  lastOp,           \* handler the last step belongs to
  lastSnap,         \* getItems() at the last 'conversation.updated' event
  itemsBy,          \* handler that last wrote the published list
  modePaused        \* capture was paused by a switch to mode none and not re-enabled since

vars == <<items, isConnected, canPushToTalk, isRecording, toggleValue, mounted, recStatus,
          playerConnected, playing, clientConnected, turnDetection, clientItems,
          nextId, deleting, tasks, calls, lastOp, lastSnap, itemsBy, modePaused>>

uiVars == <<items, isConnected, canPushToTalk, isRecording, toggleValue, mounted>>
devVars == <<recStatus, playerConnected, playing>>
cliVars == <<clientConnected, turnDetection, clientItems, nextId, deleting>>
obsVars == <<lastSnap, itemsBy, modePaused>>

ItemIds == 1..MaxItems

\* ---- data ----
NoMarker == [trackId |-> 0, offset |-> 0]
Marker(t, o) == [trackId |-> t, offset |-> o]
Call(name, t, o) == [name |-> name, trackId |-> t, offset |-> o]
C0(name) == Call(name, 0, 0)
Task(op, pc, value, item, snap) ==
  [op |-> op, pc |-> pc, value |-> value, item |-> item, snap |-> snap]
T0(op, pc) == Task(op, pc, "", 0, <<>>)

Suspend(t) == tasks (+) SetToBag({t})
Finish(t) == tasks (-) SetToBag({t})
Replace(t, u) == (tasks (-) SetToBag({t})) (+) SetToBag({u})
Pending(t) == t \in BagToSet(tasks)
CanSuspend == BagCardinality(tasks) < MaxTasks

\* bookkeeping for the mode-change property: a switch to none that is still
\* waiting for its pause is marked once capture is asked for again
CoverOne(t) == IF t.op = "changeTurnEndType" /\ t.pc = "pause"
                 THEN [t EXCEPT !.value = "none+"] ELSE t
Cover(b) == BagOfAll(CoverOne, b)

\* ---- collaborators ----
\* client.conversation.getItems(), as the list of ids the handler publishes
GetItems(cis) == [i \in 1..Len(cis) |-> cis[i].id]

\* WavRecorder status after each operation has resolved.  An operation that
\* does not apply in the current status (record before begin, pause while not
\* recording, end of an ended recorder) leaves the status as it is.  Only the
\* acquisition steps of connect (begin, player connect, client connect) are
\* given a failing outcome.
BeginResult(s) == IF s = "idle" THEN "paused" ELSE s
RecordResult(s) == IF s = "idle" THEN "idle" ELSE "recording"
PauseResult(s) == IF s = "recording" THEN "paused" ELSE s
EndResult(s) == "idle"

\* WavStreamPlayer.add16BitPCM(bytes, trackId)
Add16BitPCM(p, id) == IF p.trackId = id THEN p ELSE Marker(id, 0)

\* RealtimeClient.disconnect(): the conversation is reset with the session
ClientDisconnectItems(cis) == <<>>

\* RealtimeClient.updateSession({turn_detection}) / getTurnDetectionType()
UpdateSessionMode(value) == IF value = "none" THEN "none" ELSE "server_vad"

Init ==
  /\ items = <<>>
  /\ isConnected = FALSE
  /\ canPushToTalk = TRUE
  /\ isRecording = FALSE
  /\ toggleValue = "none"
  /\ mounted = TRUE
  /\ recStatus = "idle"
  /\ playerConnected = FALSE
  /\ playing = NoMarker
  /\ clientConnected = FALSE
  /\ turnDetection = "none"
  /\ clientItems = <<>>
  /\ nextId = 1
  /\ deleting = {}
  /\ tasks = EmptyBag
  /\ calls = <<>>
  /\ lastOp = "mount"
  /\ lastSnap = <<>>
  /\ itemsBy = "mount"
  /\ modePaused = FALSE

\* ---- connectConversation ----
ConnectStart ==
  /\ mounted /\ ~isConnected
  /\ CanSuspend
  /\ isConnected' = TRUE
  /\ items' = GetItems(clientItems)
  /\ itemsBy' = "connect"
  /\ tasks' = Suspend(T0("connect", "begin"))
  /\ calls' = <<C0("begin")>>
  /\ lastOp' = "connect"
  /\ UNCHANGED <<mounted, canPushToTalk, isRecording, toggleValue, devVars, cliVars,
                 lastSnap, modePaused>>

ConnectBeginDone(ok) ==
  /\ Pending(T0("connect", "begin"))
  /\ lastOp' = "connect"
  /\ IF ok
       THEN /\ recStatus' = BeginResult(recStatus)
            /\ tasks' = Replace(T0("connect", "begin"), T0("connect", "playerConnect"))
            /\ calls' = <<C0("beginReturn"), C0("playerConnect")>>
       ELSE /\ recStatus' = recStatus
            /\ tasks' = Finish(T0("connect", "begin"))
            /\ calls' = <<C0("throw")>>
  /\ UNCHANGED <<uiVars, playerConnected, playing, cliVars, obsVars>>

ConnectPlayerDone(ok) ==
  /\ Pending(T0("connect", "playerConnect"))
  /\ lastOp' = "connect"
  /\ IF ok
       THEN /\ playerConnected' = TRUE
            /\ tasks' = Replace(T0("connect", "playerConnect"), T0("connect", "clientConnect"))
            /\ calls' = <<C0("playerConnectReturn"), C0("clientConnect")>>
       ELSE /\ playerConnected' = playerConnected
            /\ tasks' = Finish(T0("connect", "playerConnect"))
            /\ calls' = <<C0("throw")>>
  /\ UNCHANGED <<uiVars, recStatus, playing, cliVars, obsVars>>

\* the test `client.getTurnDetectionType() === 'server_vad'`
ConnectRecordsAlways(mode) == TRUE
ConnectRecords(mode) == mode = "server_vad"

ConnectClientDone(ok) ==
  /\ Pending(T0("connect", "clientConnect"))
  /\ lastOp' = "connect"
  /\ IF ok
       THEN /\ clientConnected' = TRUE
            /\ IF ConnectRecords(turnDetection)
                 THEN /\ tasks' = Replace(T0("connect", "clientConnect"), T0("connect", "record"))
                      /\ calls' = <<C0("clientConnectReturn"), C0("sendUserMessageContent"),
                                    C0("record")>>
                 ELSE /\ tasks' = Finish(T0("connect", "clientConnect"))
                      /\ calls' = <<C0("clientConnectReturn"), C0("sendUserMessageContent")>>
       ELSE /\ clientConnected' = clientConnected
            /\ tasks' = Finish(T0("connect", "clientConnect"))
            /\ calls' = <<C0("throw")>>
  /\ UNCHANGED <<uiVars, devVars, turnDetection, clientItems, nextId, deleting, obsVars>>

ConnectRecordDone ==
  /\ Pending(T0("connect", "record"))
  /\ lastOp' = "connect"
  /\ recStatus' = RecordResult(recStatus)
  /\ tasks' = Finish(T0("connect", "record"))
  /\ calls' = <<C0("recordReturn")>>
  /\ UNCHANGED <<uiVars, playerConnected, playing, cliVars, obsVars>>

\* ---- disconnectConversation ----
\* setItems([])
DisconnectItemsKept == items
DisconnectItems == <<>>

DisconnectStart ==
  /\ mounted /\ isConnected
  /\ CanSuspend
  /\ isConnected' = FALSE
  /\ items' = DisconnectItems
  /\ itemsBy' = "disconnect"
  /\ clientConnected' = FALSE
  /\ clientItems' = ClientDisconnectItems(clientItems)
  /\ deleting' = {}
  /\ tasks' = Suspend(T0("disconnect", "end"))
  /\ calls' = <<C0("clientDisconnect"), C0("end")>>
  /\ lastOp' = "disconnect"
  /\ UNCHANGED <<mounted, canPushToTalk, isRecording, toggleValue, devVars, turnDetection,
                 nextId, lastSnap, modePaused>>

DisconnectEndDone ==
  /\ Pending(T0("disconnect", "end"))
  /\ lastOp' = "disconnect"
  /\ recStatus' = EndResult(recStatus)
  /\ tasks' = Replace(T0("disconnect", "end"), T0("disconnect", "interrupt"))
  /\ calls' = <<C0("endReturn"), C0("interrupt")>>
  /\ UNCHANGED <<uiVars, playerConnected, playing, cliVars, obsVars>>

DisconnectInterruptDone ==
  /\ Pending(T0("disconnect", "interrupt"))
  /\ lastOp' = "disconnect"
  /\ playing' = NoMarker
  /\ tasks' = Finish(T0("disconnect", "interrupt"))
  /\ calls' = <<Call("interruptReturn", playing.trackId, playing.offset)>>
  /\ UNCHANGED <<uiVars, recStatus, playerConnected, cliVars, obsVars>>

\* ---- interruption sequence (lines 123-127 and 181-185) ----
\* calls made by the continuation of `await wavStreamPlayer.interrupt()`
InterruptReturn(m) == Call("interruptReturn", m.trackId, m.offset)

\* the command sent for a marker: client.cancelResponse(trackId, offset)
CancelResponseNoOffset(m) == Call("cancelResponse", m.trackId, 0)
CancelResponse(m) == Call("cancelResponse", m.trackId, m.offset)

\* the test `trackSampleOffset?.trackId`
HasTrackAlways(m) == TRUE
HasTrack(m) == m.trackId # 0

\* ---- startRecording ----
StartRecordingStart ==
  /\ mounted /\ isConnected /\ canPushToTalk
  /\ CanSuspend
  /\ isRecording' = TRUE
  /\ modePaused' = FALSE
  /\ tasks' = Cover(tasks) (+) SetToBag({T0("startRecording", "interrupt")})
  /\ calls' = <<C0("interrupt")>>
  /\ lastOp' = "startRecording"
  /\ UNCHANGED <<mounted, items, isConnected, canPushToTalk, toggleValue, devVars, cliVars,
                 lastSnap, itemsBy>>

StartRecordingInterruptDone ==
  /\ Pending(T0("startRecording", "interrupt"))
  /\ lastOp' = "startRecording"
  /\ playing' = NoMarker
  /\ IF HasTrack(playing)
       THEN /\ tasks' = Replace(T0("startRecording", "interrupt"), T0("startRecording", "cancel"))
            /\ calls' = <<InterruptReturn(playing), CancelResponse(playing)>>
       ELSE /\ tasks' = Replace(T0("startRecording", "interrupt"), T0("startRecording", "record"))
            /\ calls' = <<InterruptReturn(playing), C0("record")>>
  /\ UNCHANGED <<uiVars, recStatus, playerConnected, cliVars, obsVars>>

StartRecordingCancelDone ==
  /\ Pending(T0("startRecording", "cancel"))
  /\ lastOp' = "startRecording"
  /\ tasks' = Replace(T0("startRecording", "cancel"), T0("startRecording", "record"))
  /\ calls' = <<C0("cancelReturn"), C0("record")>>
  /\ UNCHANGED <<uiVars, devVars, cliVars, obsVars>>

StartRecordingRecordDone ==
  /\ Pending(T0("startRecording", "record"))
  /\ lastOp' = "startRecording"
  /\ recStatus' = RecordResult(recStatus)
  /\ tasks' = Finish(T0("startRecording", "record"))
  /\ calls' = <<C0("recordReturn")>>
  /\ UNCHANGED <<uiVars, playerConnected, playing, cliVars, obsVars>>

\* ---- stopRecording ----
\* what follows `await wavRecorder.pause()`
StopRecordingNoResponse == <<C0("pauseReturn")>>
StopRecordingTail == <<C0("pauseReturn"), C0("createResponse")>>

StopRecordingStart ==
  /\ mounted /\ isConnected /\ canPushToTalk
  /\ CanSuspend
  /\ isRecording' = FALSE
  /\ tasks' = Suspend(T0("stopRecording", "pause"))
  /\ calls' = <<C0("pause")>>
  /\ lastOp' = "stopRecording"
  /\ UNCHANGED <<mounted, items, isConnected, canPushToTalk, toggleValue, devVars, cliVars, obsVars>>

StopRecordingPauseDone ==
  /\ Pending(T0("stopRecording", "pause"))
  /\ lastOp' = "stopRecording"
  /\ recStatus' = PauseResult(recStatus)
  /\ tasks' = Finish(T0("stopRecording", "pause"))
  /\ calls' = StopRecordingTail
  /\ UNCHANGED <<uiVars, playerConnected, playing, cliVars, obsVars>>

\* ---- changeTurnEndType ----
ToggleNext(v) == IF v = "none" THEN "server_vad" ELSE "none"

ChangeTask(pc, value) == Task("changeTurnEndType", pc, value, 0, <<>>)

\* lines 145-151, run either from the start of the handler or after the pause
ChangeTail(value, t, pre) ==
  /\ turnDetection' = UpdateSessionMode(value)
  /\ IF value = "server_vad" /\ clientConnected
       THEN /\ tasks' = (IF t = <<>> THEN Cover(tasks) (+) SetToBag({ChangeTask("record", value)})
                                     ELSE Replace(t[1], ChangeTask("record", value)))
            /\ calls' = pre \o <<C0("updateSession"), C0("record")>>
            /\ canPushToTalk' = canPushToTalk
       ELSE /\ tasks' = (IF t = <<>> THEN (IF value = "none" THEN tasks ELSE Cover(tasks))
                                     ELSE Finish(t[1]))
            /\ calls' = pre \o <<C0("updateSession")>>
            /\ canPushToTalk' = (value = "none")

ChangeStart ==
  LET value == ToggleNext(toggleValue) IN
  /\ mounted
  /\ toggleValue' = value
  /\ lastOp' = "changeTurnEndType"
  /\ IF value = "none" /\ recStatus = "recording"
       THEN /\ CanSuspend
            /\ tasks' = Suspend(ChangeTask("pause", value))
            /\ calls' = <<C0("pause")>>
            /\ modePaused' = modePaused
            /\ UNCHANGED <<canPushToTalk, turnDetection>>
       ELSE /\ (value = "server_vad" /\ clientConnected) => CanSuspend
            /\ modePaused' = (modePaused /\ value = "none")
            /\ ChangeTail(value, <<>>, <<>>)
  /\ UNCHANGED <<mounted, items, isConnected, isRecording, devVars, clientConnected, clientItems,
                 nextId, deleting, lastSnap, itemsBy>>

ChangePauseDone(mark) ==
  /\ Pending(ChangeTask("pause", mark))
  /\ lastOp' = "changeTurnEndType"
  /\ recStatus' = PauseResult(recStatus)
  /\ modePaused' = (modePaused \/ mark = "none")
  /\ ChangeTail("none", <<ChangeTask("pause", mark)>>, <<C0("pauseReturn")>>)
  /\ UNCHANGED <<mounted, items, isConnected, isRecording, toggleValue, playerConnected, playing,
                 clientConnected, clientItems, nextId, deleting, lastSnap, itemsBy>>

ChangeRecordDone ==
  /\ Pending(ChangeTask("record", "server_vad"))
  /\ lastOp' = "changeTurnEndType"
  /\ recStatus' = RecordResult(recStatus)
  /\ canPushToTalk' = FALSE
  /\ tasks' = Finish(ChangeTask("record", "server_vad"))
  /\ calls' = <<C0("recordReturn")>>
  /\ UNCHANGED <<mounted, items, isConnected, isRecording, toggleValue, playerConnected, playing,
                 cliVars, obsVars>>

\* ---- client.on('conversation.interrupted') ----
InterruptedStart ==
  /\ mounted /\ clientConnected
  /\ CanSuspend
  /\ tasks' = Suspend(T0("interrupted", "interrupt"))
  /\ calls' = <<C0("interrupt")>>
  /\ lastOp' = "interrupted"
  /\ UNCHANGED <<uiVars, devVars, cliVars, obsVars>>

InterruptedInterruptDone ==
  /\ Pending(T0("interrupted", "interrupt"))
  /\ lastOp' = "interrupted"
  /\ playing' = NoMarker
  /\ IF HasTrack(playing)
       THEN /\ tasks' = Replace(T0("interrupted", "interrupt"), T0("interrupted", "cancel"))
            /\ calls' = <<InterruptReturn(playing), CancelResponse(playing)>>
       ELSE /\ tasks' = Finish(T0("interrupted", "interrupt"))
            /\ calls' = <<InterruptReturn(playing)>>
  /\ UNCHANGED <<uiVars, recStatus, playerConnected, cliVars, obsVars>>

InterruptedCancelDone ==
  /\ Pending(T0("interrupted", "cancel"))
  /\ lastOp' = "interrupted"
  /\ tasks' = Finish(T0("interrupted", "cancel"))
  /\ calls' = <<C0("cancelReturn")>>
  /\ UNCHANGED <<uiVars, devVars, cliVars, obsVars>>

\* ---- deleteConversationItem ----
DeleteItem(id) ==
  /\ \E i \in 1..Len(items) : items[i] = id
  /\ id \notin deleting
  /\ mounted /\ clientConnected
  /\ deleting' = deleting \cup {id}
  /\ calls' = <<Call("deleteItem", id, 0)>>
  /\ lastOp' = "deleteItem"
  /\ UNCHANGED <<uiVars, devVars, clientConnected, turnDetection, clientItems, nextId,
                 tasks, obsVars>>

\* ---- client.on('conversation.updated') ----
\* file: the number of times item.formatted.file has been assigned
Item(id) == [id |-> id, status |-> "in_progress", audio |-> FALSE, file |-> 0]
IndexOf(cis, id) == CHOOSE i \in 1..Len(cis) : cis[i].id = id
HasItem(cis, id) == \E i \in 1..Len(cis) : cis[i].id = id
Without(cis, id) == SelectSeq(cis, LAMBDA it : it.id # id)

\* the protocol client's own update of its conversation, made before it
\* dispatches 'conversation.updated' with {item, delta}
ClientApply(cis, kind, id) ==
  CASE kind = "new" -> Append(cis, Item(id))
    [] kind = "audio" -> [cis EXCEPT ![IndexOf(cis, id)].audio = TRUE]
    [] kind = "completed" -> [cis EXCEPT ![IndexOf(cis, id)].status = "completed"]
    [] kind = "deleted" -> Without(cis, id)
    [] OTHER -> cis

EventEnabled(kind, id) ==
  CASE kind = "new" -> id = nextId /\ nextId <= MaxItems
    [] kind = "audio" -> HasItem(clientItems, id)
                         /\ clientItems[IndexOf(clientItems, id)].status = "in_progress"
    [] kind = "completed" -> HasItem(clientItems, id)
                         /\ clientItems[IndexOf(clientItems, id)].status = "in_progress"
    [] kind = "deleted" -> HasItem(clientItems, id) /\ id \in deleting
    [] OTHER -> HasItem(clientItems, id)

\* the item object the event carries
EventItem(cis, kind, id) ==
  IF kind = "deleted" THEN clientItems[IndexOf(clientItems, id)] ELSE cis[IndexOf(cis, id)]

UpdatedTask(id, snap) == Task("updated", "decode", "", id, snap)

NeedsDecode(item) == item.status = "completed" /\ item.audio

UpdatedStart(kind, id) ==
  /\ mounted /\ clientConnected
  /\ EventEnabled(kind, id)
  /\ LET cis == ClientApply(clientItems, kind, id)
         item == EventItem(cis, kind, id)
         snap == GetItems(cis)
         pcm == IF kind = "audio" THEN <<Call("add16BitPCM", id, 0)>> ELSE <<>>
     IN /\ clientItems' = cis
        /\ nextId' = IF kind = "new" THEN nextId + 1 ELSE nextId
        /\ deleting' = IF kind = "deleted" THEN deleting \ {id} ELSE deleting
        /\ lastSnap' = snap
        /\ playing' = IF kind = "audio" THEN Add16BitPCM(playing, id) ELSE playing
        /\ IF NeedsDecode(item)
             THEN /\ CanSuspend
                  /\ item.file < MaxDecodes
                  /\ tasks' = Suspend(UpdatedTask(id, snap))
                  /\ calls' = <<C0("getItems")>> \o pcm \o <<Call("decode", id, item.file)>>
                  /\ UNCHANGED <<items, itemsBy>>
             ELSE /\ items' = snap
                  /\ itemsBy' = "updated"
                  /\ calls' = <<C0("getItems")>> \o pcm \o <<C0("setItems")>>
                  /\ UNCHANGED tasks
  /\ lastOp' = "updated"
  /\ UNCHANGED <<mounted, isConnected, canPushToTalk, isRecording, toggleValue, recStatus,
                 playerConnected, clientConnected, turnDetection, modePaused>>

AttachFile(cis, id) ==
  IF HasItem(cis, id)
    THEN [cis EXCEPT ![IndexOf(cis, id)].file =
            IF @ < MaxDecodes THEN @ + 1 ELSE MaxDecodes]
    ELSE cis

UpdatedDecodeDone ==
  \E t \in BagToSet(tasks) :
  LET id == t.item
      snap == t.snap IN
  /\ t.op = "updated"
  /\ lastOp' = "updated"
  /\ clientItems' = AttachFile(clientItems, id)
  /\ items' = snap
  /\ itemsBy' = "updated"
  /\ tasks' = Finish(UpdatedTask(id, snap))
  /\ calls' = <<Call("decodeReturn", id, 0), C0("setItems")>>
  /\ UNCHANGED <<mounted, isConnected, canPushToTalk, isRecording, toggleValue, devVars,
                 clientConnected, turnDetection, nextId, deleting, lastSnap, modePaused>>

\* ---- useEffect cleanup ----
\* client.reset(): the client is disconnected, its conversation cleared and
\* its event handlers removed
Unmount ==
  /\ mounted
  /\ mounted' = FALSE
  /\ clientConnected' = FALSE
  /\ clientItems' = ClientDisconnectItems(clientItems)
  /\ deleting' = {}
  /\ calls' = <<C0("reset")>>
  /\ lastOp' = "unmount"
  /\ UNCHANGED <<items, isConnected, canPushToTalk, isRecording, toggleValue, devVars,
                 turnDetection, nextId, tasks, obsVars>>

\* ---- the devices ----
\* a captured frame reaches the callback given to wavRecorder.record
Frame ==
  /\ recStatus = "recording"
  /\ calls' = <<C0("appendInputAudio")>>
  /\ lastOp' = "frame"
  /\ UNCHANGED <<uiVars, devVars, cliVars, tasks, obsVars>>

\* playback of the current track advances, or reaches the end of the track
PlayAdvance ==
  /\ playing.trackId # 0
  /\ playing.offset < MaxOffset
  /\ playing' = Marker(playing.trackId, playing.offset + 1)
  /\ calls' = <<>>
  /\ lastOp' = "player"
  /\ UNCHANGED <<uiVars, recStatus, playerConnected, cliVars, tasks, obsVars>>

PlayFinish ==
  /\ playing.trackId # 0
  /\ playing' = NoMarker
  /\ calls' = <<>>
  /\ lastOp' = "player"
  /\ UNCHANGED <<uiVars, recStatus, playerConnected, cliVars, tasks, obsVars>>

UpdateKinds == {"new", "audio", "completed", "deleted", "other"}

Next ==
  \/ ConnectStart
  \/ \E ok \in BOOLEAN : ConnectBeginDone(ok)
  \/ \E ok \in BOOLEAN : ConnectPlayerDone(ok)
  \/ \E ok \in BOOLEAN : ConnectClientDone(ok)
  \/ ConnectRecordDone
  \/ DisconnectStart
  \/ DisconnectEndDone
  \/ DisconnectInterruptDone
  \/ StartRecordingStart
  \/ StartRecordingInterruptDone
  \/ StartRecordingCancelDone
  \/ StartRecordingRecordDone
  \/ StopRecordingStart
  \/ StopRecordingPauseDone
  \/ ChangeStart
  \/ \E mark \in {"none", "none+"} : ChangePauseDone(mark)
  \/ ChangeRecordDone
  \/ InterruptedStart
  \/ InterruptedInterruptDone
  \/ InterruptedCancelDone
  \/ \E id \in ItemIds : DeleteItem(id)
  \/ \E kind \in UpdateKinds, id \in ItemIds : UpdatedStart(kind, id)
  \/ UpdatedDecodeDone
  \/ Unmount
  \/ Frame
  \/ PlayAdvance
  \/ PlayFinish

Spec == Init /\ [][Next]_vars

\* ---- observations on the last step ----
HasCall(name) == \E i \in DOMAIN calls : calls[i].name = name
CountCalls(name) == Cardinality({i \in DOMAIN calls : calls[i].name = name})
InTasks(op, pcs) == \E t \in BagToSet(tasks) : t.op = op /\ t.pc \in pcs
InterruptionOps == {"interrupted", "startRecording"}

\* C1: an interruption sequence whose playback interrupt returns a marker for
\* an active track issues exactly one cancelResponse, carrying the trackId and
\* offset that interrupt() returned; cancelResponse is issued nowhere else.
C1_CancelExact ==
  /\ (lastOp \in InterruptionOps /\ HasCall("interruptReturn") /\ calls[1].trackId # 0)
       => /\ CountCalls("cancelResponse") = 1
          /\ calls[2] = Call("cancelResponse", calls[1].trackId, calls[1].offset)
  /\ HasCall("cancelResponse")
       => /\ lastOp \in InterruptionOps
          /\ calls[1].name = "interruptReturn"
          /\ calls[1].trackId # 0

C1_Witness ==
  /\ lastOp = "interrupted"
  /\ calls = <<Call("interruptReturn", 1, MaxOffset), Call("cancelResponse", 1, MaxOffset)>>

\* C2: an interruption sequence that runs while no track is playing gets no
\* marker, issues no cancelResponse and raises no error, and startRecording
\* goes on to start capture.
C2_NoTrackNoCancel ==
  (lastOp \in InterruptionOps /\ HasCall("interruptReturn") /\ calls[1].trackId = 0)
    => /\ ~HasCall("cancelResponse")
       /\ ~HasCall("throw")
       /\ lastOp = "startRecording"
            => calls[2].name = "record" /\ InTasks("startRecording", {"record"})

C2_Witness ==
  /\ lastOp = "startRecording"
  /\ calls = <<Call("interruptReturn", 0, 0), C0("record")>>

\* C3: no captured frame is forwarded with appendInputAudio between the start
\* of a startRecording call and the completion of its interruption sequence.
C3_NoFrameDuringInterruption ==
  (lastOp = "frame" /\ HasCall("appendInputAudio"))
    => ~InTasks("startRecording", {"interrupt", "cancel"})

\* C4: a switch from automatic to none while capture is recording pauses
\* capture before it sends updateSession, and from then on no frame is
\* forwarded until a later startRecording or a switch back to automatic.
C4_PausedUntilReenabled ==
  /\ (lastOp = "changeTurnEndType" /\ HasCall("pauseReturn"))
       => calls = <<C0("pauseReturn"), C0("updateSession")>> /\ recStatus # "recording"
  /\ (lastOp = "frame" /\ HasCall("appendInputAudio")) => ~modePaused

C6_PublishedIsLatest ==
  (itemsBy = "updated" /\ ~InTasks("updated", {"decode"})) => items = lastSnap

\* C7: the file of an item is decoded at most once: no decode is started for
\* an item that already has a file, and file is assigned at most once.
C7_DecodeOnce ==
  /\ \A i \in DOMAIN clientItems : clientItems[i].file <= 1
  /\ \A i \in DOMAIN calls : calls[i].name = "decode" => calls[i].offset = 0

\* C8: at most one connect() invocation is in flight.
C8_SingleConnect ==
  \A t \in BagToSet(tasks) : t.op = "connect" => CopiesIn(t, tasks) = 1 /\
    \A u \in BagToSet(tasks) : u.op = "connect" => u = t

\* C9: when a step of connect() fails, what the earlier steps acquired has been
\* released and the session is in the disconnected state.
C9_FailedConnectReleases ==
  (lastOp = "connect" /\ HasCall("throw"))
    => ~isConnected /\ recStatus = "idle" /\ ~clientConnected

\* C10: stopRecording issues exactly one createResponse, after its pause has
\* completed, and no other operation issues createResponse.
C10_CreateResponseAfterPause ==
  /\ (lastOp = "stopRecording" /\ HasCall("pauseReturn"))
       => /\ CountCalls("createResponse") = 1
          /\ calls = <<C0("pauseReturn"), C0("createResponse")>>
          /\ recStatus # "recording"
  /\ HasCall("createResponse") => lastOp = "stopRecording" /\ calls[1].name = "pauseReturn"

C10_Witness ==
  /\ lastOp = "stopRecording"
  /\ HasCall("createResponse")
  /\ clientConnected /\ turnDetection = "none"
  /\ recStatus = "paused"
  /\ ~InTasks("stopRecording", {"pause"})

\* C11: canPushToTalk is true exactly when the turn-detection mode applied to
\* the protocol session is none, in every state.
C11_PushToTalkIffManual ==
  mounted => (canPushToTalk <=> (turnDetection = "none"))

\* C12: disconnect() releases in the order interrupt playback, stop capture,
\* close the protocol connection: when it closes the connection its playback
\* interrupt and its capture end have resolved.
C12_TeardownOrder ==
  (lastOp = "disconnect" /\ HasCall("clientDisconnect"))
    => ~InTasks("disconnect", {"end", "interrupt"})

\* C13: interruption sequences do not overlap, and while one is between its
\* playback interrupt and its cancelResponse no other handler enqueues audio,
\* interrupts playback or issues a cancelResponse.
InterruptionsPending ==
  BagCardinality([t \in {u \in BagToSet(tasks) :
                           u.op \in InterruptionOps /\ u.pc = "interrupt"}
                    |-> CopiesIn(t, tasks)])

C13_InterruptionAtomic ==
  /\ InterruptionsPending <= 1
  /\ InterruptionsPending = 1
       => /\ ~HasCall("add16BitPCM")
          /\ ~HasCall("cancelResponse")
          /\ ~HasCall("interruptReturn")
          /\ HasCall("interrupt") => lastOp \in InterruptionOps

\* C14: connect() issues begin, then the player connect, then the client
\* connect, then the initial user message, each after the one before has
\* resolved, and asks for capture exactly when the mode is automatic.
C14_ConnectOrder ==
  /\ HasCall("begin") => lastOp = "connect" /\ calls = <<C0("begin")>>
  /\ HasCall("playerConnect")
       => lastOp = "connect" /\ calls[1].name = "beginReturn" /\ recStatus # "idle"
  /\ HasCall("clientConnect")
       => lastOp = "connect" /\ calls[1].name = "playerConnectReturn" /\ playerConnected
  /\ HasCall("sendUserMessageContent")
       => /\ lastOp = "connect" /\ clientConnected
          /\ calls[1].name = "clientConnectReturn"
          /\ calls[2].name = "sendUserMessageContent"
          /\ HasCall("record") <=> (turnDetection = "server_vad")
          /\ HasCall("record") => calls[3].name = "record"
  /\ (lastOp = "connect" /\ HasCall("record")) => HasCall("sendUserMessageContent")

C14_Witness ==
  /\ lastOp = "connect"
  /\ calls = <<C0("clientConnectReturn"), C0("sendUserMessageContent"), C0("record")>>
  /\ turnDetection = "server_vad"
  /\ InTasks("connect", {"record"})

\* C15: after the component is unmounted and every handler has finished,
\* capture has been stopped and playback has been interrupted.
C15_UnmountReleases ==
  (~mounted /\ tasks = EmptyBag) => (recStatus # "recording" /\ playing = NoMarker)

\* C16: no captured frame is forwarded with appendInputAudio while the
\* protocol client is not connected.
C16_FramesOnlyWhenConnected ==
  (lastOp = "frame" /\ HasCall("appendInputAudio")) => clientConnected

\* C17: in manual mode, once every startRecording and stopRecording handler
\* has finished and no push-to-talk gesture is held, capture is not recording.
C17_ReleasedMeansNotRecording ==
  ( /\ mounted
    /\ turnDetection = "none" /\ toggleValue = "none" /\ canPushToTalk
    /\ ~isRecording
    /\ tasks = EmptyBag )
    => recStatus # "recording"

\* C18: whenever no connect() or disconnect() handler is in flight, the flag
\* isConnected equals the protocol client's connection state.
C18_FlagMatchesClient ==
  mounted /\ ~(InTasks("connect", {"begin", "playerConnect", "clientConnect", "record"})
    \/ InTasks("disconnect", {"end", "interrupt"}))
    => (isConnected <=> clientConnected)

\* C19: after disconnect() has cleared the published list it stays empty until
\* the next connect().
C19_EmptyWhileDisconnected ==
  (mounted /\ ~isConnected) => items = <<>>

\* C20: record is called only when the capture resource is acquired and
\* capture is not already recording.
C20_RecordOnlyWhenPaused ==
  HasCall("record") => recStatus = "paused"

\* ---- the races the claims above name, each as a case of its claim ----
\* a stopRecording that overtakes its startRecording leaves capture recording
StartStopRaceStopsCapture ==
  ( /\ mounted /\ lastOp = "startRecording" /\ clientConnected
    /\ turnDetection = "none" /\ toggleValue = "none" /\ canPushToTalk
    /\ ~isRecording
    /\ tasks = EmptyBag )
    => recStatus # "recording"

\* a disconnect issued during connect ends with the flag at disconnected
\* while the client is connected and capture acquired
DisconnectDuringConnectSettles ==
  ( /\ mounted /\ ~isConnected
    /\ ~InTasks("connect", {"begin", "playerConnect", "clientConnect", "record"})
    /\ ~InTasks("disconnect", {"end", "interrupt"}) )
    => ~(clientConnected /\ recStatus # "idle")

\* a handler suspended in decoding republishes after the disconnect
NoStalePublishAfterDisconnect ==
  (mounted /\ ~isConnected /\ ~clientConnected) => items = <<>>
====
